---- MODULE Spec2Model ----
(***************************************************************************)
(* Lightmap-UV cache of dw::Mesh (src/src/mesh.cpp): the geometry hash,    *)
(* the binary cache codec, the atlas consolidator and the constructor that *)
(* orchestrates them.                                                      *)
(*                                                                         *)
(* Representation.  A float is a reduced fraction n/d packed into one      *)
(* integer (Flt); a vec4 is a 4-tuple of floats; a string is a sequence of *)
(* character codes.  A file is a sequence of units: one unit per byte of   *)
(* the 64-bit hash and of a name, one unit per 32-bit word elsewhere.  A   *)
(* 64-bit hash is the tuple of its 8 bytes, least significant first.       *)
(***************************************************************************)
EXTENDS Integers, Sequences, FiniteSets, TLC

----------------------------------------------------------------------------
(* Bounds of the model *)

\* vertices the packer may duplicate across UV seams: 0..MaxSeamSplits
MaxSeamSplits == 1
\* atlas width/height reported by a packing that worked
AtlasDim == 2

----------------------------------------------------------------------------
(* Program constants *)

LIGHTMAP_CACHE_MAGIC == 1280131408
LIGHTMAP_CACHE_VERSION == 1

\* 14695981039346656037 = 0xCBF29CE484222325, bytes least significant first
FNV_OFFSET == <<37, 35, 34, 132, 228, 156, 242, 203>>
\* 1099511628211 = 0x00000100000001B3, bytes least significant first
FNV_PRIME == <<179, 1, 0, 0, 0, 1, 0, 0>>

----------------------------------------------------------------------------
(* Floats, words and bytes *)

RECURSIVE GCD(_, _)
GCD(a, b) == IF b = 0 THEN a ELSE GCD(b, a % b)

\* the float n/d (d > 0), as a reduced fraction packed into one integer
Flt(n, d) == LET g == GCD(n, d) IN (n \div g) * 16 + (d \div g)

\* float(u) of an unsigned integer
FloatOf(u) == Flt(u, 1)

\* a / b in float arithmetic, a and b small non-negative integers, b > 0
FloatDiv(a, b) == Flt(a, b)

\* numeric order of two floats
FloatLess(f, g) == (f \div 16) * (g % 16) < (g \div 16) * (f % 16)

\* IEEE-754 single precision bytes of a float, least significant first
FloatBytes(f) ==
    CASE f = Flt(0, 1) -> <<0, 0, 0, 0>>
      [] f = Flt(1, 2) -> <<0, 0, 0, 63>>
      [] f = Flt(1, 1) -> <<0, 0, 128, 63>>
      [] f = Flt(2, 1) -> <<0, 0, 0, 64>>
      [] f = Flt(3, 1) -> <<0, 0, 64, 64>>

\* the 4 bytes of a uint32_t, least significant first
U32Bytes(n) ==
    <<n % 256, (n \div 256) % 256, (n \div 65536) % 256, (n \div 16777216) % 256>>

RECURSIVE XorBits(_, _, _)
XorBits(a, b, k) ==
    IF k = 0 THEN 0
    ELSE ((a + b) % 2) + 2 * XorBits(a \div 2, b \div 2, k - 1)

\* a ^ b on bytes
XorByte(a, b) == XorBits(a, b, 8)

RECURSIVE Concat(_)
Concat(ss) == IF ss = <<>> THEN <<>> ELSE Head(ss) \o Concat(Tail(ss))

Prefix(s, n) == SubSeq(s, 1, n)

----------------------------------------------------------------------------
(* compute_mesh_hash: 64-bit FNV-1a *)

\* hash ^= v for an operand of up to 4 bytes, zero-extended to 64 bits
HashXor(hash, bytes) ==
    [k \in 1..8 |-> IF k <= Len(bytes) THEN XorByte(hash[k], bytes[k]) ELSE hash[k]]

\* column k (from 0) of the schoolbook product hash * FNV_PRIME
MulColumn(hash, k) ==
    LET term[i \in 0..k] == hash[i + 1] * FNV_PRIME[k - i + 1]
        sum[i \in 0..k] == IF i = 0 THEN term[0] ELSE sum[i - 1] + term[i]
    IN  sum[k]

RECURSIVE MulCarry(_, _, _)
MulCarry(hash, k, carry) ==
    IF k = 8 THEN <<>>
    ELSE LET col == MulColumn(hash, k) + carry
         IN  <<col % 256>> \o MulCarry(hash, k + 1, col \div 256)

\* hash *= FNV_PRIME, modulo 2^64
HashMul(hash) == MulCarry(hash, 0, 0)

\* for each byte of data[lo..hi]: hash ^= data[i]; hash *= FNV_PRIME
\* (the range is halved so that the evaluation stays shallow)
RECURSIVE HashRange(_, _, _, _)
HashRange(hash, data, lo, hi) ==
    IF lo > hi THEN hash
    ELSE IF lo = hi THEN HashMul(HashXor(hash, <<data[lo]>>))
    ELSE LET mid == (lo + hi) \div 2
             left == HashRange(hash, data, lo, mid)
         IN  IF Len(left) = 8 THEN HashRange(left, data, mid + 1, hi) ELSE <<>>

HashBytes(hash, data) == HashRange(hash, data, 1, Len(data))

\* a faulty variant of PositionBytes: the bytes of the normal are hashed too
PositionAndNormalBytes(v) ==
    Concat([i \in 1..4 |-> FloatBytes(v.position[i])])
        \o Concat([i \in 1..4 |-> FloatBytes(v.normal[i])])

PositionBytes(v) == Concat([i \in 1..4 |-> FloatBytes(v.position[i])])

HashVertices(hash, vertices) ==
    HashBytes(hash, Concat([i \in 1..Len(vertices) |-> PositionBytes(vertices[i])]))

HashIndices(hash, indices) ==
    HashBytes(hash, Concat([i \in 1..Len(indices) |-> U32Bytes(indices[i])]))

\* for each submesh: hash ^= index_count; hash *= FNV_PRIME; hash ^= base_index;
\* hash *= FNV_PRIME
HashSubMeshes(hash, sub_meshes) ==
    LET h[i \in 0..Len(sub_meshes)] ==
            IF i = 0 THEN hash
            ELSE HashMul(HashXor(HashMul(HashXor(h[i - 1], U32Bytes(sub_meshes[i].index_count))),
                                 U32Bytes(sub_meshes[i].base_index)))
    IN  h[Len(sub_meshes)]

compute_mesh_hash(vertices, indices, sub_meshes) ==
    HashSubMeshes(HashIndices(HashVertices(FNV_OFFSET, vertices), indices), sub_meshes)

----------------------------------------------------------------------------
(* Imported scenes and Mesh::load_from_disk *)

F0 == Flt(0, 1)
F1 == Flt(1, 1)
F2 == Flt(2, 1)

\* one triangle in the plane z, as the importer hands it over (an aiMesh)
Tri(name, z, mat) ==
    [mName |-> name,
     mVertices |-> << <<F0, F0, z>>, <<F1, F0, z>>, <<F0, F1, z>> >>,
     mNormals |-> << <<F0, F0, F1>>, <<F0, F0, F1>>, <<F0, F0, F1>> >>,
     mTangents |-> << <<F1, F0, F0>>, <<F1, F0, F0>>, <<F1, F0, F0>> >>,
     mBitangents |-> << <<F0, F1, F0>>, <<F0, F1, F0>>, <<F0, F1, F0>> >>,
     mTextureCoords |-> << <<F0, F0>>, <<F1, F0>>, <<F0, F1>> >>,
     mFaces |-> << <<0, 1, 2>> >>,
     mMaterialIndex |-> mat]

\* the aiMeshes the scenes are made of: an unnamed one, and one named "ab" that
\* lies in another plane and uses another material
MeshA == Tri(<<>>, F0, 0)
MeshB == Tri(<<97, 98>>, F2, 1)
\* a point cloud: vertices and no faces
MeshP == [Tri(<<112>>, F1, 0) EXCEPT !.mFaces = <<>>]

\* MeshA with its submesh given the name "r": same vertices, faces and material
MeshR == [MeshA EXCEPT !.mName = <<114>>]

\* a second aiMesh named "ab", in another plane and with another material
\* than MeshB
MeshC == Tri(<<97, 98>>, F1, 0)

\* the scenes the source mesh file may hold
Scenes == {<<MeshA>>, <<MeshB>>, <<MeshA, MeshB>>, <<MeshP>>}

RECURSIVE SumTo(_, _)
SumTo(f, n) == IF n = 0 THEN 0 ELSE f[n] + SumTo(f, n - 1)

\* m_sub_meshes[i].mat_idx: position of the mesh's material in m_materials,
\* materials being appended at the first submesh that uses them
MatIdx(Scene, i) ==
    LET first == CHOOSE j \in 1..i :
                   /\ Scene[j].mMaterialIndex = Scene[i].mMaterialIndex
                   /\ \A k \in 1..(j - 1) : Scene[k].mMaterialIndex # Scene[i].mMaterialIndex
    IN  Cardinality({Scene[k].mMaterialIndex : k \in 1..(first - 1)})

\* m_materials after load_from_disk: one material per material of the scene
\* that a submesh uses, in the order of the first submesh using it; a
\* material is written as the mMaterialIndex it was made from
ImportMaterials(Scene) ==
    LET firsts == {i \in 1..Len(Scene) :
                     \A k \in 1..(i - 1) : Scene[k].mMaterialIndex # Scene[i].mMaterialIndex}
    IN  [p \in 1..Cardinality(firsts) |->
            Scene[CHOOSE i \in firsts : MatIdx(Scene, i) = p - 1].mMaterialIndex]

\* the largest (smallest) coordinate c over the vertices of an aiMesh
MaxCoord(mesh, c) ==
    CHOOSE x \in {mesh.mVertices[k][c] : k \in 1..Len(mesh.mVertices)} :
        \A k \in 1..Len(mesh.mVertices) : ~FloatLess(x, mesh.mVertices[k][c])
MinCoord(mesh, c) ==
    CHOOSE x \in {mesh.mVertices[k][c] : k \in 1..Len(mesh.mVertices)} :
        \A k \in 1..Len(mesh.mVertices) : ~FloatLess(mesh.mVertices[k][c], x)

ImportSubMesh(Scene, i) ==
    [name |-> Scene[i].mName,
     mat_idx |-> MatIdx(Scene, i),
     index_count |-> Len(Scene[i].mFaces) * 3,
     base_index |-> SumTo([j \in 1..Len(Scene) |-> Len(Scene[j].mFaces) * 3], i - 1),
     base_vertex |-> 0,
     vertex_count |-> Len(Scene[i].mVertices),
     max_extents |-> [c \in 1..3 |-> MaxCoord(Scene[i], c)],
     min_extents |-> [c \in 1..3 |-> MinCoord(Scene[i], c)]]

ImportVertex(Scene, i, k) ==
    LET m == Scene[i]
    IN  [position |-> m.mVertices[k] \o <<FloatOf(MatIdx(Scene, i))>>,
         tex_coord |-> m.mTextureCoords[k] \o <<F0, F0>>,
         lightmap_tex_coord |-> <<F0, F0, F0, F0>>,
         normal |-> m.mNormals[k] \o <<F0>>,
         tangent |-> m.mTangents[k] \o <<F0>>,
         bitangent |-> m.mBitangents[k] \o <<F0>>]

\* m_indices of submesh i: base_vertex + the face indices, in face order
ImportIndices(Scene, i) ==
    LET base_vertex == SumTo([j \in 1..Len(Scene) |-> Len(Scene[j].mVertices)], i - 1)
    IN  Concat([f \in 1..Len(Scene[i].mFaces) |->
                   [c \in 1..3 |-> base_vertex + Scene[i].mFaces[f][c]]])

\* the geometry load_from_disk leaves in the mesh
load_from_disk(Scene) ==
    [vertices |-> Concat([i \in 1..Len(Scene) |->
                     [k \in 1..Len(Scene[i].mVertices) |-> ImportVertex(Scene, i, k)]]),
     indices |-> Concat([i \in 1..Len(Scene) |-> ImportIndices(Scene, i)]),
     sub_meshes |-> [i \in 1..Len(Scene) |-> ImportSubMesh(Scene, i)]]

----------------------------------------------------------------------------
(* save_lightmap_cache: the bytes of a cache record *)

\* sizeof(Vertex) in 32-bit units: six vec4
VertexUnits == 6 * 4

\* the header in units: magic, version, 8 hash bytes, 3 counts, width, height
HeaderUnits == 2 + 8 + 5

EncodeVertex(v) ==
    v.position \o v.tex_coord \o v.lightmap_tex_coord \o v.normal \o v.tangent \o v.bitangent

\* a faulty variant of SubMeshWrites: base_index is written before base_vertex,
\* the reader keeping the order of the code
SubMeshWritesSwapped(sm) ==
    <<<<Len(sm.name)>>, sm.name, <<sm.mat_idx>>, <<sm.index_count>>, <<sm.base_index>>,
      <<sm.base_vertex>>, <<sm.vertex_count>>, sm.max_extents, sm.min_extents>>

\* the file.write calls for one submesh, each with the units it writes
SubMeshWrites(sm) ==
    <<<<Len(sm.name)>>, sm.name, <<sm.mat_idx>>, <<sm.index_count>>, <<sm.base_vertex>>,
      <<sm.base_index>>, <<sm.vertex_count>>, sm.max_extents, sm.min_extents>>

\* the file.write calls for the header
HeaderWrites(mesh_hash, vertex_count, index_count, submesh_count, width, height) ==
    <<<<LIGHTMAP_CACHE_MAGIC>>, <<LIGHTMAP_CACHE_VERSION>>, mesh_hash, <<vertex_count>>,
      <<index_count>>, <<submesh_count>>, <<width>>, <<height>>>>

\* every file.write call of save_lightmap_cache, in order: the header fields,
\* the vertex array, the index array, the fields of each submesh
WriteCalls(vertices, indices, sub_meshes, width, height, mesh_hash) ==
    HeaderWrites(mesh_hash, Len(vertices), Len(indices), Len(sub_meshes), width, height)
        \o <<Concat([i \in 1..Len(vertices) |-> EncodeVertex(vertices[i])])>>
        \o <<indices>>
        \o Concat([i \in 1..Len(sub_meshes) |-> SubMeshWrites(sub_meshes[i])])

----------------------------------------------------------------------------
(* load_lightmap_cache: reading a cache record back *)

\* an std::ifstream: units consumed so far, and failbit
StreamAt(pos) == [pos |-> pos, fail |-> FALSE]

\* file.read of n units succeeds
ReadOk(file, st, n) == ~st.fail /\ st.pos + n <= Len(file)

\* the stream after file.read of n units: a short read sets failbit, and
\* every read after that is a no-op
AfterRead(file, st, n) ==
    IF ReadOk(file, st, n) THEN [pos |-> st.pos + n, fail |-> FALSE]
    ELSE [pos |-> st.pos, fail |-> TRUE]

\* the units a successful read of n units delivers
ReadData(file, st, n) == SubSeq(file, st.pos + 1, st.pos + n)

DecodeVertex(u) ==
    [position |-> SubSeq(u, 1, 4),
     tex_coord |-> SubSeq(u, 5, 8),
     lightmap_tex_coord |-> SubSeq(u, 9, 12),
     normal |-> SubSeq(u, 13, 16),
     tangent |-> SubSeq(u, 17, 20),
     bitangent |-> SubSeq(u, 21, 24)]

\* the fields of a submesh record that follow the name, from 11 units
DecodeSubMesh(name, u) ==
    [name |-> name,
     mat_idx |-> u[1],
     index_count |-> u[2],
     base_vertex |-> u[3],
     base_index |-> u[4],
     vertex_count |-> u[5],
     max_extents |-> SubSeq(u, 6, 8),
     min_extents |-> SubSeq(u, 9, 11)]

\* The submesh loop.  name_len is a local without initialiser: when its read
\* fails (the stream already failed, or the file ends there) the value that
\* sizes std::string name(name_len, '\0') is indeterminate; uninit records
\* that this happened.
RECURSIVE ReadSubMeshes(_, _, _)
ReadSubMeshes(file, st, count) ==
    IF count = 0 THEN [st |-> st, sub_meshes |-> <<>>, uninit |-> FALSE]
    ELSE LET len_ok == ReadOk(file, st, 1)
             st1 == AfterRead(file, st, 1)
             name_len == IF len_ok THEN file[st.pos + 1] ELSE 0
             name_ok == ReadOk(file, st1, name_len)
             st2 == AfterRead(file, st1, name_len)
             body_ok == ReadOk(file, st2, 5 + 3 + 3)
             st3 == AfterRead(file, st2, 5 + 3 + 3)
             sm == IF body_ok
                   THEN <<DecodeSubMesh(ReadData(file, st1, name_len),
                                        ReadData(file, st2, 5 + 3 + 3))>>
                   ELSE <<>>
             rest == ReadSubMeshes(file, st3, count - 1)
         IN  [st |-> rest.st,
              sub_meshes |-> sm \o rest.sub_meshes,
              uninit |-> ~len_ok \/ rest.uninit]

NoGeometry ==
    [vertices |-> <<>>, indices |-> <<>>, sub_meshes |-> <<>>,
     lightmap_width |-> 0, lightmap_height |-> 0]

\* a faulty variant of HeaderValid: any version is accepted
HeaderValidAnyVersion(file, expected_hash) ==
    /\ file[1] = LIGHTMAP_CACHE_MAGIC
    /\ SubSeq(file, 3, 10) = expected_hash

\* the header checks, in the order of the code
HeaderValid(file, expected_hash) ==
    /\ file[1] = LIGHTMAP_CACHE_MAGIC
    /\ file[2] = LIGHTMAP_CACHE_VERSION
    /\ SubSeq(file, 3, 10) = expected_hash

\* What load_lightmap_cache decides and decodes.  alloc_fails: the build's
\* outcome for a string sized by an indeterminate name_len (the allocation
\* throws std::bad_alloc or std::length_error) as against a size it can serve.
\* ret is "true", "false" or "throw".
DecodeCache(exists, file, expected_hash, alloc_fails) ==
    IF ~exists \/ Len(file) < HeaderUnits \/ ~HeaderValid(file, expected_hash)
    THEN [ret |-> "false", data |-> NoGeometry]
    ELSE LET vertex_count == file[11]
             index_count == file[12]
             submesh_count == file[13]
             st0 == StreamAt(HeaderUnits)
             st1 == AfterRead(file, st0, vertex_count * VertexUnits)
             st2 == AfterRead(file, st1, index_count)
             subs == ReadSubMeshes(file, st2, submesh_count)
         IN  IF subs.uninit /\ alloc_fails THEN [ret |-> "throw", data |-> NoGeometry]
             ELSE IF subs.st.fail THEN [ret |-> "false", data |-> NoGeometry]
             ELSE [ret |-> "true",
                   data |-> [vertices |-> [i \in 1..vertex_count |->
                                 DecodeVertex(SubSeq(file, HeaderUnits + (i - 1) * VertexUnits + 1,
                                                     HeaderUnits + i * VertexUnits))],
                             indices |-> ReadData(file, st1, index_count),
                             sub_meshes |-> subs.sub_meshes,
                             lightmap_width |-> file[14],
                             lightmap_height |-> file[15]]]

----------------------------------------------------------------------------
(* The atlas packer (xatlas) and generate_lightmap_uvs *)

\* position (from 1) of the last occurrence of index value x
LastUse(indices, x) ==
    CHOOSE i \in 1..Len(indices) :
        indices[i] = x /\ \A j \in (i + 1)..Len(indices) : indices[j] # x

\* A packing of n vertices into a width x height atlas that duplicates the
\* vertices 0..k-1 across a seam: the copy of x is output vertex n + x, and the
\* last triangle corner that used x uses the copy.
Packed(n, indices, width, height, k) ==
    [vertexArray |-> [v \in 1..(n + k) |->
                        [xref |-> IF v <= n THEN v - 1 ELSE v - n - 1,
                         uv |-> <<(v - 1) % (width + 1),
                                  ((v - 1) \div (width + 1)) % (height + 1)>>]],
     indexArray |-> [i \in 1..Len(indices) |->
                        IF indices[i] < k /\ i = LastUse(indices, indices[i])
                        THEN n + indices[i] ELSE indices[i]]]

AtlasOf(add_ok, width, height, meshCount, mesh) ==
    [add_ok |-> add_ok, width |-> width, height |-> height, meshCount |-> meshCount,
     vertexArray |-> mesh.vertexArray, indexArray |-> mesh.indexArray]

NoAtlas == AtlasOf(FALSE, 0, 0, 0, [vertexArray |-> <<>>, indexArray |-> <<>>])

\* What xatlas may report for a mesh it packed, the atlas being AtlasDim wide
\* and AtlasDim + 1 high: a packing with 0..MaxSeamSplits duplicated vertices,
\* or an output mesh with no vertices or with no indices.
PackerSuccesses(vertices, indices) ==
    LET n == Len(vertices)
        plain == Packed(n, indices, AtlasDim, AtlasDim, 0)
    IN  {AtlasOf(TRUE, AtlasDim, AtlasDim + 1, 1,
                     Packed(n, indices, AtlasDim, AtlasDim + 1, k)) :
            k \in 0..MaxSeamSplits}
        \cup {AtlasOf(TRUE, AtlasDim, AtlasDim + 1, 1,
                      [vertexArray |-> <<>>, indexArray |-> plain.indexArray]),
              AtlasOf(TRUE, AtlasDim, AtlasDim + 1, 1,
                      [vertexArray |-> plain.vertexArray, indexArray |-> <<>>])}

\* What it may report otherwise: AddMesh refusing the mesh, an atlas without
\* width or without height, a mesh count other than one.
PackerFailures(vertices, indices) ==
    LET plain == Packed(Len(vertices), indices, AtlasDim, AtlasDim, 0)
    IN  {AtlasOf(FALSE, 0, 0, 0, [vertexArray |-> <<>>, indexArray |-> <<>>])}
        \cup {AtlasOf(TRUE, d[1], d[2], 1, plain) : d \in {<<0, AtlasDim>>, <<AtlasDim, 0>>}}
        \cup {AtlasOf(TRUE, AtlasDim, AtlasDim, 2, plain)}

PackerOutputs(vertices, indices) ==
    PackerSuccesses(vertices, indices) \cup PackerFailures(vertices, indices)

\* a faulty variant of NewVertex: both lightmap coordinates are divided by the
\* atlas width
NewVertexByWidth(vertices, xvert, width, height) ==
    [vertices[xvert.xref + 1] EXCEPT
        !.lightmap_tex_coord = <<FloatDiv(xvert.uv[1], width),
                                 FloatDiv(xvert.uv[2], width), F0, F0>>]

\* the new vertex for output vertex xvert: the vertex it refers to, with the
\* lightmap UV normalised to the atlas size
NewVertex(vertices, xvert, width, height) ==
    [vertices[xvert.xref + 1] EXCEPT
        !.lightmap_tex_coord = <<FloatDiv(xvert.uv[1], width),
                                 FloatDiv(xvert.uv[2], height), F0, F0>>]

\* a faulty variant of RebaseSubMeshes: vertex_count is left as imported
RebaseSubMeshesKeepingCount(sub_meshes, new_vertex_count) ==
    [i \in 1..Len(sub_meshes) |->
        [sub_meshes[i] EXCEPT
            !.base_index = SumTo([j \in 1..Len(sub_meshes) |-> sub_meshes[j].index_count], i - 1),
            !.base_vertex = 0]]

\* a faulty variant of RebaseSubMeshes: current_index is advanced before it is
\* assigned
RebaseSubMeshesAdvancingFirst(sub_meshes, new_vertex_count) ==
    [i \in 1..Len(sub_meshes) |->
        [sub_meshes[i] EXCEPT
            !.base_index = SumTo([j \in 1..Len(sub_meshes) |-> sub_meshes[j].index_count], i),
            !.base_vertex = 0,
            !.vertex_count = new_vertex_count]]

\* the submesh loop: base_index is the running sum of the index counts
RebaseSubMeshes(sub_meshes, new_vertex_count) ==
    [i \in 1..Len(sub_meshes) |->
        [sub_meshes[i] EXCEPT
            !.base_index = SumTo([j \in 1..Len(sub_meshes) |-> sub_meshes[j].index_count], i - 1),
            !.base_vertex = 0,
            !.vertex_count = new_vertex_count]]

\* the mesh fields a call may change, as one record
MeshState(vertices, indices, sub_meshes, width, height, has_uvs) ==
    [vertices |-> vertices, indices |-> indices, sub_meshes |-> sub_meshes,
     lightmap_width |-> width, lightmap_height |-> height, has_lightmap_uvs |-> has_uvs]

\* a faulty variant of generate_lightmap_uvs: the submeshes are rebased as soon
\* as the atlas has a size, before the mesh count is looked at
generate_lightmap_uvs_rebasing_early(m, atlas) ==
    IF m.vertices = <<>> \/ m.indices = <<>> THEN [ret |-> FALSE, mesh |-> m]
    ELSE IF ~atlas.add_ok THEN [ret |-> FALSE, mesh |-> m]
    ELSE IF atlas.width = 0 \/ atlas.height = 0 THEN [ret |-> FALSE, mesh |-> m]
    ELSE LET sized == [m EXCEPT !.lightmap_width = atlas.width,
                                !.lightmap_height = atlas.height,
                                !.sub_meshes = RebaseSubMeshes(m.sub_meshes,
                                                               Len(atlas.vertexArray))]
         IN  IF atlas.meshCount # 1 THEN [ret |-> FALSE, mesh |-> sized]
             ELSE [ret |-> TRUE,
                   mesh |-> [sized EXCEPT
                       !.vertices = [v \in 1..Len(atlas.vertexArray) |->
                                        NewVertex(m.vertices, atlas.vertexArray[v],
                                                  atlas.width, atlas.height)],
                       !.indices = atlas.indexArray,
                       !.has_lightmap_uvs = TRUE]]

\* generate_lightmap_uvs on mesh state m with the packer answering atlas:
\* the value returned and the mesh state left behind
generate_lightmap_uvs(m, atlas) ==
    IF m.vertices = <<>> \/ m.indices = <<>> THEN [ret |-> FALSE, mesh |-> m]
    ELSE IF ~atlas.add_ok THEN [ret |-> FALSE, mesh |-> m]
    ELSE IF atlas.width = 0 \/ atlas.height = 0 THEN [ret |-> FALSE, mesh |-> m]
    ELSE LET sized == [m EXCEPT !.lightmap_width = atlas.width,
                                !.lightmap_height = atlas.height]
         IN  IF atlas.meshCount # 1 THEN [ret |-> FALSE, mesh |-> sized]
             ELSE [ret |-> TRUE,
                   mesh |-> [sized EXCEPT
                       !.vertices = [v \in 1..Len(atlas.vertexArray) |->
                                        NewVertex(m.vertices, atlas.vertexArray[v],
                                                  atlas.width, atlas.height)],
                       !.indices = atlas.indexArray,
                       !.sub_meshes = RebaseSubMeshes(m.sub_meshes, Len(atlas.vertexArray)),
                       !.has_lightmap_uvs = TRUE]]

----------------------------------------------------------------------------
(* State *)

VARIABLES
    scene,                \* what the source mesh file holds (the importer's aiScene)
    file_exists,          \* the cache file <stem>.lightmap_cache exists
    file_data,            \* its units
    file_kind,            \* history: "absent", "record" (all of a record, as saved),
                          \* "prefix" (a record cut short), "partial" (a save whose
                          \* writes failed), "tampered" (a header field overwritten)
    record,               \* history: the mesh state and hash of the record the file
                          \* holds, or held before it was cut or overwritten
    pc,                   \* where the constructor Mesh::Mesh(path, ...) stands
    generate_lightmap_uv, \* its argument
    m_vertices, m_indices, m_sub_meshes,
    m_lightmap_width, m_lightmap_height, m_has_lightmap_uvs,
    mesh_hash,            \* the constructor's local
    atlas,                \* what the packer answered in this load
    load_ret, gen_ret, save_ret,  \* "none" until the call has returned
    calls,                \* history: the calls the constructor made, in order
    header,               \* load_lightmap_cache's header locals, once read while
                          \* another load may write the file
    g_last_mesh_idx,      \* the static counter the constructors take m_id from
    m_cache,              \* the static map Mesh::m_cache: cache_key -> weak_ptr<Mesh>
    thread,               \* the locals of each thread that calls Mesh::load
    m_materials,          \* the mesh's materials list
    set_call              \* history: the last material setter called on the mesh

file_vars == <<file_exists, file_data, file_kind, record>>
mesh_vars == <<m_vertices, m_indices, m_sub_meshes,
               m_lightmap_width, m_lightmap_height, m_has_lightmap_uvs>>
load_vars == <<pc, generate_lightmap_uv, mesh_hash, atlas, load_ret, gen_ret, save_ret,
               calls, header>>
static_vars == <<g_last_mesh_idx, m_cache, thread>>
material_vars == <<m_materials, set_call>>
vars == <<scene, file_vars, mesh_vars, load_vars, static_vars, material_vars>>

NoHash == <<0, 0, 0, 0, 0, 0, 0, 0>>

\* a Mesh before load_from_disk: empty vectors and the members' initial values
NewMesh == MeshState(<<>>, <<>>, <<>>, 0, 0, FALSE)

Mesh == MeshState(m_vertices, m_indices, m_sub_meshes,
                  m_lightmap_width, m_lightmap_height, m_has_lightmap_uvs)

SetMesh(m) ==
    /\ m_vertices' = m.vertices
    /\ m_indices' = m.indices
    /\ m_sub_meshes' = m.sub_meshes
    /\ m_lightmap_width' = m.lightmap_width
    /\ m_lightmap_height' = m.lightmap_height
    /\ m_has_lightmap_uvs' = m.has_lightmap_uvs

NoRecord == [mesh |-> NewMesh, hash |-> NoHash]

\* No material setter has been called on the mesh yet.
NoCall == [op |-> "none", name |-> <<>>, mesh_idx |-> 0, material |-> 0,
           ret |-> "none", count |-> 0]

\* The threads of the surrounding system that call Mesh::load, the path each
\* of them loads, and how many loads each makes.
Threads == {1, 2}
MaxLoads == 2
PathOf(t) == IF t = 1 THEN "a.obj" ELSE "b.obj"

\* cache_key = absolute_file_path_str + (generate_lightmap_uv ? "_lightmap" : "")
CacheKey(path, flag) == <<path, IF flag THEN "_lightmap" ELSE "">>
CacheKeys == {CacheKey(PathOf(t), flag) : t \in Threads, flag \in BOOLEAN}

\* A null Mesh::Ptr, an absent or empty entry of m_cache.
NoMesh == [obj |-> <<0, 0>>, m_id |-> 0, cache_key |-> <<"", "">>]
NoKey == <<"", "">>
IdleThread == [pc |-> "idle", cache_key |-> NoKey, idx |-> 0, mesh |-> NoMesh,
               table |-> <<>>, ret |-> NoMesh, loads |-> 0]

Init ==
    /\ scene \in Scenes
    /\ file_exists = FALSE
    /\ file_data = <<>>
    /\ file_kind = "absent"
    /\ record = NoRecord
    /\ pc = "idle"
    /\ generate_lightmap_uv = FALSE
    /\ m_vertices = <<>>
    /\ m_indices = <<>>
    /\ m_sub_meshes = <<>>
    /\ m_lightmap_width = 0
    /\ m_lightmap_height = 0
    /\ m_has_lightmap_uvs = FALSE
    /\ mesh_hash = NoHash
    /\ atlas = NoAtlas
    /\ load_ret = "none"
    /\ gen_ret = "none"
    /\ save_ret = "none"
    /\ calls = <<>>
    /\ header = <<>>
    /\ g_last_mesh_idx = 0
    /\ m_cache = [k \in CacheKeys |-> NoMesh]
    /\ thread = [t \in Threads |-> IdleThread]
    /\ m_materials = <<>>
    /\ set_call = NoCall

----------------------------------------------------------------------------
(* The constructor Mesh::Mesh(path, load_materials, is_orca_mesh,           *)
(* generate_lightmap_uv), one action per call it makes                     *)

\* load_from_disk, then the test of generate_lightmap_uv
Construct(flag) ==
    /\ pc = "idle"
    /\ generate_lightmap_uv' = flag
    /\ \E g \in {load_from_disk(scene)} :
         SetMesh([NewMesh EXCEPT !.vertices = g.vertices, !.indices = g.indices,
                                 !.sub_meshes = g.sub_meshes])
    /\ m_materials' = ImportMaterials(scene)
    /\ set_call' = NoCall
    /\ pc' = IF flag THEN "hash" ELSE "gpu"
    /\ calls' = <<"load_from_disk">>
    /\ UNCHANGED static_vars
    /\ UNCHANGED <<scene, header, file_vars, mesh_hash, atlas, load_ret, gen_ret, save_ret>>

\* uint64_t mesh_hash = compute_mesh_hash();
ComputeHash ==
    /\ pc = "hash"
    /\ mesh_hash' = compute_mesh_hash(m_vertices, m_indices, m_sub_meshes)
    /\ pc' = "load_cache"
    /\ calls' = Append(calls, "compute_mesh_hash")
    /\ UNCHANGED <<static_vars, material_vars>>
    /\ UNCHANGED <<scene, header, file_vars, mesh_vars, generate_lightmap_uv, atlas,
                   load_ret, gen_ret, save_ret>>

\* a faulty variant of AdoptCache: the decoded data goes into the members
\* whatever the call returns
AdoptCacheAlways(res, m) ==
    MeshState(res.data.vertices, res.data.indices, res.data.sub_meshes,
              res.data.lightmap_width, res.data.lightmap_height, TRUE)

\* the mesh state load_lightmap_cache leaves: the decoded one when it returns
\* true, the one it found otherwise (it decodes into locals)
AdoptCache(res, m) ==
    IF res.ret = "true"
    THEN MeshState(res.data.vertices, res.data.indices, res.data.sub_meshes,
                   res.data.lightmap_width, res.data.lightmap_height, TRUE)
    ELSE m

\* a faulty variant of AfterLoadCache: the generator runs after a hit too
AfterLoadCacheRegenerating(ret) == IF ret = "throw" THEN "aborted" ELSE "generate"

\* a faulty variant of AfterLoadCache: the test of the return value is inverted
AfterLoadCacheInverted(ret) ==
    CASE ret = "true" -> "generate"
      [] ret = "false" -> "gpu"
      [] ret = "throw" -> "aborted"

\* if (!load_lightmap_cache(...)) generate; an exception leaves the constructor
AfterLoadCache(ret) ==
    CASE ret = "true" -> "gpu"
      [] ret = "false" -> "generate"
      [] ret = "throw" -> "aborted"

LoadLightmapCache ==
    /\ pc = "load_cache"
    /\ \E res \in {DecodeCache(file_exists, file_data, mesh_hash, alloc_fails) :
                        alloc_fails \in BOOLEAN} :
         /\ SetMesh(AdoptCache(res, Mesh))
         /\ load_ret' = res.ret
         /\ pc' = AfterLoadCache(res.ret)
    /\ calls' = Append(calls, "load_lightmap_cache")
    /\ UNCHANGED <<static_vars, material_vars>>
    /\ UNCHANGED <<scene, header, file_vars, generate_lightmap_uv, mesh_hash, atlas,
                   gen_ret, save_ret>>

\* a faulty variant of AfterGenerate: the cache is saved whatever the generator
\* returned
AfterGenerateSaving(ret) == "save"

\* if (generate_lightmap_uvs()) save_lightmap_cache(cache_path, mesh_hash);
AfterGenerate(ret) == IF ret THEN "save" ELSE "gpu"

\* a: what the packer answers
GenerateLightmapUVs(a) ==
    /\ pc = "generate"
    /\ \E res \in {generate_lightmap_uvs(Mesh, a)} :
         /\ SetMesh(res.mesh)
         /\ gen_ret' = IF res.ret THEN "true" ELSE "false"
         /\ pc' = AfterGenerate(res.ret)
    /\ atlas' = a
    /\ calls' = Append(calls, "generate_lightmap_uvs")
    /\ UNCHANGED <<static_vars, material_vars>>
    /\ UNCHANGED <<scene, header, file_vars, generate_lightmap_uv, mesh_hash,
                   load_ret, save_ret>>

\* a faulty variant of SaveKey: the hash of the geometry being saved
SaveKeyOfSaved(hash, m) == compute_mesh_hash(m.vertices, m.indices, m.sub_meshes)

\* the hash save_lightmap_cache is given: the constructor's mesh_hash
SaveKey(hash, m) == hash

\* save_lightmap_cache: the file cannot be created (nothing changes), or it is
\* created empty and the writes go through until one fails, if one does; after
\* a failed write the stream ignores the later ones.  A write that fails puts
\* nothing in the file here; what a write that fails half way leaves is a cut
\* record, as TruncateCache makes them.
SaveLightmapCache ==
    /\ pc = "save"
    /\ \E key \in {SaveKey(mesh_hash, Mesh)} :
       \E writes \in {WriteCalls(m_vertices, m_indices, m_sub_meshes,
                                 m_lightmap_width, m_lightmap_height, key)} :
           \/ /\ save_ret' = "false"
              /\ UNCHANGED file_vars
           \/ \E done \in 0..Len(writes) :
                /\ file_exists' = TRUE
                /\ file_data' = Concat(Prefix(writes, done))
                /\ save_ret' = IF done = Len(writes) THEN "true" ELSE "false"
                /\ file_kind' = IF done = Len(writes) THEN "record" ELSE "partial"
                /\ record' = [mesh |-> Mesh, hash |-> key]
    /\ pc' = "gpu"
    /\ calls' = Append(calls, "save_lightmap_cache")
    /\ UNCHANGED <<static_vars, material_vars>>
    /\ UNCHANGED <<scene, header, mesh_vars, generate_lightmap_uv, mesh_hash, atlas,
                   load_ret, gen_ret>>

CreateGpuObjects ==
    /\ pc = "gpu"
    /\ pc' = "done"
    /\ calls' = Append(calls, "create_gpu_objects")
    /\ UNCHANGED <<static_vars, material_vars>>
    /\ UNCHANGED <<scene, header, file_vars, mesh_vars, generate_lightmap_uv, mesh_hash,
                   atlas, load_ret, gen_ret, save_ret>>

\* the mesh is dropped (or its construction was abandoned); the next load of
\* the path constructs a new one
Release ==
    /\ pc \in {"done", "aborted"}
    /\ pc' = "idle"
    /\ SetMesh(NewMesh)
    /\ generate_lightmap_uv' = FALSE
    /\ mesh_hash' = NoHash
    /\ atlas' = NoAtlas
    /\ load_ret' = "none"
    /\ gen_ret' = "none"
    /\ save_ret' = "none"
    /\ calls' = <<>>
    /\ header' = <<>>
    /\ m_materials' = <<>>
    /\ set_call' = NoCall
    /\ UNCHANGED static_vars
    /\ UNCHANGED <<scene, file_vars>>

----------------------------------------------------------------------------
(* The surroundings, between loads *)

\* the source mesh file is replaced by another one
ReplaceSource(s) ==
    /\ pc = "idle"
    /\ s # scene
    /\ scene' = s
    /\ UNCHANGED <<static_vars, material_vars>>
    /\ UNCHANGED <<file_vars, mesh_vars, load_vars>>

\* a complete cache record is cut to a proper prefix
TruncateCache(n) ==
    /\ pc = "idle"
    /\ file_kind = "record"
    /\ n < Len(file_data)
    /\ file_data' = Prefix(file_data, n)
    /\ file_kind' = "prefix"
    /\ UNCHANGED <<static_vars, material_vars>>
    /\ UNCHANGED <<scene, file_exists, record, mesh_vars, load_vars>>

\* one header field of a complete cache record is overwritten: the magic, the
\* version, or the first byte of the stored hash
TamperCache(field) ==
    /\ pc = "idle"
    /\ file_kind = "record"
    /\ file_data' = [file_data EXCEPT ![field] = (@ + 1) % 256]
    /\ file_kind' = "tampered"
    /\ UNCHANGED <<static_vars, material_vars>>
    /\ UNCHANGED <<scene, file_exists, record, mesh_vars, load_vars>>

DeleteCache ==
    /\ pc = "idle"
    /\ file_exists
    /\ file_exists' = FALSE
    /\ file_data' = <<>>
    /\ file_kind' = "absent"
    /\ record' = NoRecord
    /\ UNCHANGED <<static_vars, material_vars>>
    /\ UNCHANGED <<scene, mesh_vars, load_vars>>

----------------------------------------------------------------------------
(* Specifications *)

\* Loads of a path whose source file and cache file change between loads,
\* with every answer of the packer and every failure of the cache writes.
Next ==
    \/ \E flag \in BOOLEAN : Construct(flag)
    \/ ComputeHash
    \/ LoadLightmapCache
    \/ \E a \in PackerOutputs(m_vertices, m_indices) : GenerateLightmapUVs(a)
    \/ SaveLightmapCache
    \/ CreateGpuObjects
    \/ Release
    \/ \E s \in Scenes : ReplaceSource(s)
    \/ \E field \in 1..3 : TamperCache(field)
    \/ DeleteCache

Spec == Init /\ [][Next]_vars

\* Loads of one source file with lightmap UVs requested and a packer that
\* packs, the cache file being cut at every unit, overwritten or deleted
\* between loads.
NextCodec ==
    \/ Construct(TRUE)
    \/ ComputeHash
    \/ LoadLightmapCache
    \/ \E a \in PackerSuccesses(m_vertices, m_indices) : GenerateLightmapUVs(a)
    \/ SaveLightmapCache
    \/ CreateGpuObjects
    \/ Release
    \/ \E n \in 0..(Len(file_data) - 1) : TruncateCache(n)
    \/ \E field \in 1..3 : TamperCache(field)
    \/ DeleteCache

SpecCodec == Init /\ [][NextCodec]_vars

----------------------------------------------------------------------------
(* Two loads of one mesh: this load reads the cache file while another load *)
(* of the same source file, which found no valid record when it looked, is  *)
(* in save_lightmap_cache                                                   *)

\* load_lightmap_cache up to the header checks: the file is opened and the
\* header is read and validated; the data is read later (ReadBody)
ReadHeader ==
    /\ pc = "load_cache"
    /\ IF file_exists /\ Len(file_data) >= HeaderUnits /\ HeaderValid(file_data, mesh_hash)
       THEN /\ header' = Prefix(file_data, HeaderUnits)
            /\ pc' = "load_data"
            /\ load_ret' = load_ret
       ELSE /\ header' = header
            /\ pc' = AfterLoadCache("false")
            /\ load_ret' = "false"
    /\ calls' = Append(calls, "load_lightmap_cache")
    /\ UNCHANGED <<static_vars, material_vars>>
    /\ UNCHANGED <<scene, file_vars, mesh_vars, generate_lightmap_uv, mesh_hash, atlas,
                   gen_ret, save_ret>>

\* the rest of load_lightmap_cache: the vertices, indices and submeshes are
\* read, by the counts of the header read before, from what the file holds now
ReadBody ==
    /\ pc = "load_data"
    /\ \E res \in {DecodeCache(TRUE,
                                header \o SubSeq(file_data, HeaderUnits + 1, Len(file_data)),
                                mesh_hash, alloc_fails) : alloc_fails \in BOOLEAN} :
         /\ SetMesh(AdoptCache(res, Mesh))
         /\ load_ret' = res.ret
         /\ pc' = AfterLoadCache(res.ret)
    /\ UNCHANGED <<static_vars, material_vars>>
    /\ UNCHANGED <<scene, header, file_vars, generate_lightmap_uv, mesh_hash, atlas,
                   gen_ret, save_ret, calls>>

\* the other load opens the file for writing: std::ofstream empties it.  What
\* it is about to write is the geometry it consolidated from the same source
\* file with the packer answering a, under the hash of the imported geometry.
WriterOpen(a) ==
    /\ pc \in {"load_cache", "load_data"}
    /\ file_kind # "writing"
    /\ \E g \in {load_from_disk(scene)} :
       \E res \in {generate_lightmap_uvs(
                        [NewMesh EXCEPT !.vertices = g.vertices, !.indices = g.indices,
                                        !.sub_meshes = g.sub_meshes], a)} :
         /\ res.ret
         /\ record' = [mesh |-> res.mesh, hash |-> mesh_hash]
    /\ file_exists' = TRUE
    /\ file_data' = <<>>
    /\ file_kind' = "writing"
    /\ UNCHANGED <<static_vars, material_vars>>
    /\ UNCHANGED <<scene, mesh_vars, load_vars>>

\* the other load's next file.write that writes anything reaches the file
WriterWrite ==
    /\ file_kind = "writing"
    /\ \E writes \in {WriteCalls(record.mesh.vertices, record.mesh.indices,
                                 record.mesh.sub_meshes, record.mesh.lightmap_width,
                                 record.mesh.lightmap_height, record.hash)} :
       \E done \in 1..Len(writes) :
         /\ Len(Concat(Prefix(writes, done))) > Len(file_data)
         /\ Len(Concat(Prefix(writes, done - 1))) = Len(file_data)
         /\ file_data' = Concat(Prefix(writes, done))
         /\ file_kind' = IF \A j \in (done + 1)..Len(writes) : writes[j] = <<>>
                         THEN "record" ELSE "writing"
    /\ UNCHANGED <<static_vars, material_vars>>
    /\ UNCHANGED <<scene, file_exists, record, mesh_vars, load_vars>>

NextShared ==
    \/ Construct(TRUE)
    \/ ComputeHash
    \/ ReadHeader
    \/ ReadBody
    \/ \E a \in PackerSuccesses(m_vertices, m_indices) : GenerateLightmapUVs(a)
    \/ SaveLightmapCache
    \/ CreateGpuObjects
    \/ Release
    \/ \E a \in PackerSuccesses(load_from_disk(scene).vertices,
                                 load_from_disk(scene).indices) : WriterOpen(a)
    \/ WriterWrite

SpecShared == Init /\ [][NextShared]_vars

----------------------------------------------------------------------------
(* Mesh::load called by two threads, each for its own path *)

\* weak_ptr::expired(): no Mesh::Ptr holds the object any more.
Expired(m) == \A t \in Threads : thread[t].mesh # m /\ thread[t].ret # m

\* Mesh::load is entered and builds its cache_key; the caller still holds the
\* Mesh::Ptr of its previous load unless it dropped it.
MeshLoad(t, flag) ==
    /\ thread[t].pc \in {"idle", "done"}
    /\ thread[t].loads < MaxLoads
    /\ thread' = [thread EXCEPT ![t].pc = "find",
                                ![t].cache_key = CacheKey(PathOf(t), flag),
                                ![t].loads = thread[t].loads + 1]
    /\ UNCHANGED <<scene, file_vars, mesh_vars, load_vars, material_vars, g_last_mesh_idx, m_cache>>

\* if (m_cache.find(cache_key) == m_cache.end() || m_cache[cache_key].expired())
\* and, when the entry is live, the else branch: return ptr.lock().
LoadFind(t) ==
    /\ thread[t].pc = "find"
    /\ LET e == m_cache[thread[t].cache_key]
       IN  IF e = NoMesh \/ Expired(e)
           THEN thread' = [thread EXCEPT ![t].pc = "new"]
           ELSE thread' = [thread EXCEPT ![t].pc = "done", ![t].ret = e]
    /\ UNCHANGED <<scene, file_vars, mesh_vars, load_vars, material_vars, g_last_mesh_idx, m_cache>>

\* m_id = g_last_mesh_idx++ is a read of the static counter ...
MeshReadIdx(t) ==
    /\ thread[t].pc = "new"
    /\ thread' = [thread EXCEPT ![t].pc = "new_store", ![t].idx = g_last_mesh_idx]
    /\ UNCHANGED <<scene, file_vars, mesh_vars, load_vars, material_vars, g_last_mesh_idx, m_cache>>

\* ... and a write of the read value plus one; nothing orders the two against
\* the other thread (MaxLoads keeps the uint32_t far from wrapping). The rest
\* of the constructor works on the members of the new object and on the cache
\* file of its own path.
MeshWriteIdx(t) ==
    /\ thread[t].pc = "new_store"
    /\ g_last_mesh_idx' = thread[t].idx + 1
    /\ thread' = [thread EXCEPT ![t].pc = "insert",
                                ![t].mesh = [obj |-> <<t, thread[t].loads>>,
                                             m_id |-> thread[t].idx,
                                             cache_key |-> thread[t].cache_key]]
    /\ UNCHANGED <<scene, file_vars, mesh_vars, load_vars, material_vars, m_cache>>

\* m_cache[cache_key] = mesh: std::unordered_map::operator[] reads the table
\* to place the node for a key it does not hold ...
CacheInsertRead(t) ==
    /\ thread[t].pc = "insert"
    /\ thread' = [thread EXCEPT ![t].pc = "insert_store", ![t].table = m_cache]
    /\ UNCHANGED <<scene, file_vars, mesh_vars, load_vars, material_vars, g_last_mesh_idx, m_cache>>

\* ... and writes the table with the node linked in, then the weak_ptr; the
\* map is not synchronised. Mesh::load returns the pointer.
CacheInsertWrite(t) ==
    /\ thread[t].pc = "insert_store"
    /\ m_cache' = [thread[t].table EXCEPT ![thread[t].cache_key] = thread[t].mesh]
    /\ thread' = [thread EXCEPT ![t].pc = "done", ![t].ret = thread[t].mesh,
                                ![t].mesh = NoMesh, ![t].table = <<>>]
    /\ UNCHANGED <<scene, file_vars, mesh_vars, load_vars, material_vars, g_last_mesh_idx>>

\* The caller drops the Mesh::Ptr it was given; the entry of m_cache expires.
DropMesh(t) ==
    /\ thread[t].pc = "done"
    /\ thread' = [thread EXCEPT ![t] = [IdleThread EXCEPT !.loads = thread[t].loads]]
    /\ UNCHANGED <<scene, file_vars, mesh_vars, load_vars, material_vars, g_last_mesh_idx, m_cache>>

NextLoads ==
    \/ \E t \in Threads, flag \in BOOLEAN : MeshLoad(t, flag)
    \/ \E t \in Threads : LoadFind(t)
    \/ \E t \in Threads : MeshReadIdx(t)
    \/ \E t \in Threads : MeshWriteIdx(t)
    \/ \E t \in Threads : CacheInsertRead(t)
    \/ \E t \in Threads : CacheInsertWrite(t)
    \/ \E t \in Threads : DropMesh(t)

SpecLoads == Init /\ [][NextLoads]_vars

\* Mesh::is_loaded(name): m_cache.find(name) != m_cache.end(); nothing in the
\* file erases an entry of m_cache.
is_loaded(name) == m_cache[name] # NoMesh

\* Mesh::load with this key would take the else branch and return ptr.lock().
LoadHits(cache_key) == ~(m_cache[cache_key] = NoMesh \/ Expired(m_cache[cache_key]))

\* A caller is outside Mesh::load.
Quiet(t) == thread[t].pc \in {"idle", "done"}

\* The same calls made one at a time: a caller enters or continues a load only
\* while every other caller is outside Mesh::load.
NextSerial ==
    \/ \E t \in Threads, flag \in BOOLEAN :
          (\A u \in Threads \ {t} : Quiet(u)) /\ MeshLoad(t, flag)
    \/ \E t \in Threads : (\A u \in Threads \ {t} : Quiet(u)) /\ LoadFind(t)
    \/ \E t \in Threads : (\A u \in Threads \ {t} : Quiet(u)) /\ MeshReadIdx(t)
    \/ \E t \in Threads : (\A u \in Threads \ {t} : Quiet(u)) /\ MeshWriteIdx(t)
    \/ \E t \in Threads : (\A u \in Threads \ {t} : Quiet(u)) /\ CacheInsertRead(t)
    \/ \E t \in Threads : (\A u \in Threads \ {t} : Quiet(u)) /\ CacheInsertWrite(t)
    \/ \E t \in Threads : (\A u \in Threads \ {t} : Quiet(u)) /\ DropMesh(t)

SpecSerial == Init /\ [][NextSerial]_vars

----------------------------------------------------------------------------
(* Loads of a source file whose submesh is renamed between loads *)

\* what the source mesh file is replaced by: the one-triangle scene under
\* either name
RenamedScenes == {<<MeshA>>, <<MeshR>>}

\* Loads with lightmap UVs requested and a packer that packs, the source file
\* being replaced between loads by one that differs in the submesh name only.
NextRenamed ==
    \/ Construct(TRUE)
    \/ ComputeHash
    \/ LoadLightmapCache
    \/ \E a \in PackerSuccesses(m_vertices, m_indices) : GenerateLightmapUVs(a)
    \/ SaveLightmapCache
    \/ CreateGpuObjects
    \/ Release
    \/ \E s \in RenamedScenes : ReplaceSource(s)

SpecRenamed == Init /\ [][NextRenamed]_vars

----------------------------------------------------------------------------
(* The material setters of a loaded mesh *)

\* the arguments the setters are called with: submesh names (one that no
\* submesh has), submesh indices (some beyond the list), materials
MaxSetCalls == 3
SubMeshNames == {<<>>, <<97, 98>>, <<120>>}
MeshIndices == 0..2
Materials == {10, 11}

\* what the source mesh file is replaced by: two submeshes of one name, two
\* submeshes of different names
MaterialScenes == {<<MeshB, MeshC>>, <<MeshA, MeshB>>}

\* a faulty variant of set_submesh_material_name: every submesh of that name
\* is pointed at the new material
set_submesh_material_every_name(sub_meshes, materials, name, material) ==
    IF \A i \in 1..Len(sub_meshes) : sub_meshes[i].name # name
    THEN [ret |-> "false", sub_meshes |-> sub_meshes, materials |-> materials]
    ELSE [ret |-> "true",
          sub_meshes |-> [i \in 1..Len(sub_meshes) |->
                            IF sub_meshes[i].name = name
                            THEN [sub_meshes[i] EXCEPT !.mat_idx = Len(materials)]
                            ELSE sub_meshes[i]],
          materials |-> Append(materials, material)]

\* set_submesh_material(std::string name, material): the value returned and
\* the submeshes and materials left behind
set_submesh_material_name(sub_meshes, materials, name, material) ==
    LET found == {i \in 1..Len(sub_meshes) : sub_meshes[i].name = name}
    IN  IF found = {}
        THEN [ret |-> "false", sub_meshes |-> sub_meshes, materials |-> materials]
        ELSE LET i == CHOOSE i \in found : \A j \in found : i <= j
             IN  [ret |-> "true",
                  sub_meshes |-> [sub_meshes EXCEPT ![i].mat_idx = Len(materials)],
                  materials |-> Append(materials, material)]

\* set_submesh_material(uint32_t mesh_idx, material)
set_submesh_material_index(sub_meshes, materials, mesh_idx, material) ==
    IF mesh_idx >= Len(sub_meshes)
    THEN [ret |-> "false", sub_meshes |-> sub_meshes, materials |-> materials]
    ELSE [ret |-> "true",
          sub_meshes |-> [sub_meshes EXCEPT ![mesh_idx + 1].mat_idx = Len(materials)],
          materials |-> Append(materials, material)]

\* set_global_material(material); it returns nothing
set_global_material(sub_meshes, materials, material) ==
    [ret |-> "void",
     sub_meshes |-> [i \in 1..Len(sub_meshes) |->
                       [sub_meshes[i] EXCEPT !.mat_idx = Len(materials)]],
     materials |-> Append(materials, material)]

\* a setter has answered res to the call op(name or mesh_idx, material)
SetMaterial(op, name, mesh_idx, material, res) ==
    /\ m_sub_meshes' = res.sub_meshes
    /\ m_materials' = res.materials
    /\ set_call' = [op |-> op, name |-> name, mesh_idx |-> mesh_idx,
                    material |-> material, ret |-> res.ret, count |-> set_call.count + 1]
    /\ UNCHANGED <<scene, file_vars, load_vars, static_vars, m_vertices, m_indices,
                   m_lightmap_width, m_lightmap_height, m_has_lightmap_uvs>>

SetSubMeshMaterialByName(name, material) ==
    /\ pc = "done"
    /\ set_call.count < MaxSetCalls
    /\ SetMaterial("name", name, 0, material,
                   set_submesh_material_name(m_sub_meshes, m_materials, name, material))

SetSubMeshMaterialByIndex(mesh_idx, material) ==
    /\ pc = "done"
    /\ set_call.count < MaxSetCalls
    /\ SetMaterial("index", <<>>, mesh_idx, material,
                   set_submesh_material_index(m_sub_meshes, m_materials, mesh_idx, material))

SetGlobalMaterial(material) ==
    /\ pc = "done"
    /\ set_call.count < MaxSetCalls
    /\ SetMaterial("global", <<>>, 0, material,
                   set_global_material(m_sub_meshes, m_materials, material))

\* Loads without lightmap UVs of a source file that is replaced between
\* loads, and calls of the material setters on the loaded mesh.
NextMaterials ==
    \/ Construct(FALSE)
    \/ CreateGpuObjects
    \/ Release
    \/ \E s \in MaterialScenes : ReplaceSource(s)
    \/ \E name \in SubMeshNames, material \in Materials :
          SetSubMeshMaterialByName(name, material)
    \/ \E mesh_idx \in MeshIndices, material \in Materials :
          SetSubMeshMaterialByIndex(mesh_idx, material)
    \/ \E material \in Materials : SetGlobalMaterial(material)

SpecMaterials == Init /\ [][NextMaterials]_vars

----------------------------------------------------------------------------
(* Properties *)

\* C1 (round trip): when load_lightmap_cache has run on a file that holds all
\* of a record as save_lightmap_cache wrote it, with the hash the record was
\* saved under, it has returned true and the mesh holds the vertices, indices,
\* submeshes and lightmap width and height that were saved.
C1_RoundTrip ==
    (load_ret # "none" /\ gen_ret = "none" /\ file_kind = "record" /\ record.hash = mesh_hash)
        => /\ load_ret = "true"
           /\ m_vertices = record.mesh.vertices
           /\ m_indices = record.mesh.indices
           /\ m_sub_meshes = record.mesh.sub_meshes
           /\ m_lightmap_width = record.mesh.lightmap_width
           /\ m_lightmap_height = record.mesh.lightmap_height

\* a record of two submeshes, the second one named, with a vertex the packer
\* duplicated, has been read back
C1_Witness ==
    /\ load_ret = "true"
    /\ file_kind = "record"
    /\ Len(m_sub_meshes) = 2
    /\ m_sub_meshes[2].name # <<>>
    /\ m_sub_meshes[2].base_index # m_sub_meshes[2].base_vertex
    /\ Len(m_vertices) > Len(m_indices)

\* C2 (hit only on a matching header): load_lightmap_cache has returned true
\* only if the file exists and stores LIGHTMAP_CACHE_MAGIC, LIGHTMAP_CACHE_VERSION
\* and the hash it was given; and when the header is all there and one of the
\* three differs, it has returned false.
C2_HitOnlyOnMatchingHeader ==
    /\ load_ret = "true"
        => /\ file_exists
           /\ Len(file_data) >= HeaderUnits
           /\ file_data[1] = LIGHTMAP_CACHE_MAGIC
           /\ file_data[2] = LIGHTMAP_CACHE_VERSION
           /\ SubSeq(file_data, 3, 10) = mesh_hash
    /\ (/\ load_ret # "none"
        /\ gen_ret = "none"
        /\ Len(file_data) >= HeaderUnits
        /\ \/ file_data[1] # LIGHTMAP_CACHE_MAGIC
           \/ file_data[2] # LIGHTMAP_CACHE_VERSION
           \/ SubSeq(file_data, 3, 10) # mesh_hash)
        => load_ret = "false"

\* a record whose version alone was overwritten has been refused
C2_Witness ==
    /\ load_ret = "false"
    /\ file_kind = "tampered"
    /\ file_data[1] = LIGHTMAP_CACHE_MAGIC
    /\ file_data[2] # LIGHTMAP_CACHE_VERSION
    /\ SubSeq(file_data, 3, 10) = mesh_hash

\* C3 (truncation is rejected): when load_lightmap_cache has run on a proper
\* prefix of a record, with the hash the record was saved under, it has
\* returned false.
C3_TruncationRejected ==
    (load_ret # "none" /\ gen_ret = "none" /\ file_kind = "prefix" /\ record.hash = mesh_hash)
        => load_ret = "false"

\* C4 (no partial state): a call of load_lightmap_cache that returns false
\* leaves the vertices, indices, submeshes, lightmap width and height and the
\* has-lightmap-UVs flag as they were.
C4_NoPartialState ==
    [][(pc = "load_cache" /\ load_ret' = "false") => UNCHANGED mesh_vars]_vars

\* a record cut after its header has been refused, the imported geometry being
\* in the mesh
C4_Witness ==
    /\ load_ret = "false"
    /\ gen_ret = "none"
    /\ file_kind = "prefix"
    /\ Len(file_data) > HeaderUnits
    /\ m_vertices # <<>>
    /\ ~m_has_lightmap_uvs

\* C5 (idempotence on a valid cache): a load with lightmap UVs requested that
\* finds all of a record saved under the hash of the imported geometry gets
\* true from load_lightmap_cache, adopts the record's geometry and leaves the
\* file alone; and a load that got true calls neither generate_lightmap_uvs nor
\* save_lightmap_cache, the file staying the record and the geometry the
\* record's.
C5_IdempotentHit ==
    /\ [][(pc = "load_cache" /\ file_kind = "record" /\ record.hash = mesh_hash)
            => /\ load_ret' = "true"
               /\ m_vertices' = record.mesh.vertices
               /\ m_indices' = record.mesh.indices
               /\ m_sub_meshes' = record.mesh.sub_meshes
               /\ UNCHANGED file_vars]_vars
    /\ [](load_ret = "true"
            => /\ \A i \in 1..Len(calls) :
                    calls[i] \notin {"generate_lightmap_uvs", "save_lightmap_cache"}
               /\ gen_ret = "none"
               /\ save_ret = "none"
               /\ file_kind = "record"
               /\ m_vertices = record.mesh.vertices
               /\ m_indices = record.mesh.indices
               /\ m_sub_meshes = record.mesh.sub_meshes)

\* a load has hit the cache and finished
C5_Witness ==
    /\ pc = "done"
    /\ load_ret = "true"
    /\ calls = <<"load_from_disk", "compute_mesh_hash", "load_lightmap_cache",
                 "create_gpu_objects">>

\* C6 (miss then hit): a record that save_lightmap_cache wrote in full is
\* stored under the hash of the geometry as imported and holds the geometry
\* the load ended with; and every later load of the same source file that finds
\* the record gets true from load_lightmap_cache and the record's geometry.
C6_MissThenHit ==
    /\ [](save_ret = "true"
            => /\ file_kind = "record"
               /\ record.hash = mesh_hash
               /\ SubSeq(file_data, 3, 10) =
                      LET g == load_from_disk(scene)
                      IN  compute_mesh_hash(g.vertices, g.indices, g.sub_meshes)
               /\ record.mesh = Mesh)
    /\ [][(pc = "load_cache" /\ file_kind = "record")
            => /\ load_ret' = "true"
               /\ m_vertices' = record.mesh.vertices
               /\ m_indices' = record.mesh.indices
               /\ m_sub_meshes' = record.mesh.sub_meshes]_vars

\* a later load has hit a record whose geometry has more vertices than the
\* imported one
C6_Witness ==
    /\ pc = "done"
    /\ load_ret = "true"
    /\ Len(m_vertices) > Len(load_from_disk(scene).vertices)
    /\ m_vertices = record.mesh.vertices

\* C7 (a failure of the consolidator leaves the geometry): a call of
\* generate_lightmap_uvs that returns false leaves vertices, indices and
\* submeshes as they were; it returns false when the atlas has no width or no
\* height or a mesh count other than one, and, whatever the packer would
\* answer, when the vertices or the indices are empty.
C7_FailureLeavesGeometry ==
    /\ [][(pc = "generate" /\ gen_ret' = "false")
            => UNCHANGED <<m_vertices, m_indices, m_sub_meshes>>]_vars
    /\ []((gen_ret # "none" /\ atlas.add_ok
             /\ (atlas.width = 0 \/ atlas.height = 0 \/ atlas.meshCount # 1))
            => gen_ret = "false")
    /\ [](\A m \in {NewMesh,
                    [NewMesh EXCEPT !.indices = <<0, 0, 0>>],
                    [Mesh EXCEPT !.vertices = <<>>],
                    [Mesh EXCEPT !.indices = <<>>]} :
            \A a \in PackerOutputs(m.vertices, m.indices) :
                generate_lightmap_uvs(m, a) = [ret |-> FALSE, mesh |-> m])

\* the packer has reported two meshes for a mesh of two submeshes, and the
\* submeshes are the imported ones
C7_Witness ==
    /\ gen_ret = "false"
    /\ atlas.meshCount = 2
    /\ Len(m_sub_meshes) = 2
    /\ m_sub_meshes[2].vertex_count # Len(m_vertices)
    /\ m_sub_meshes = load_from_disk(scene).sub_meshes

\* C8 (the skipped outcome): once generate_lightmap_uvs has returned false the
\* load goes on to create_gpu_objects; the geometry is the imported one, every
\* lightmap UV is (0,0) and the has-lightmap-UVs flag is false;
\* save_lightmap_cache is not called; and the cache file, with whatever it
\* holds, stays as it was.
C8_SkippedOutcome ==
    /\ [](gen_ret = "false"
            => /\ pc \in {"gpu", "done"}
               /\ <<m_vertices, m_indices, m_sub_meshes>> =
                      LET g == load_from_disk(scene)
                      IN  <<g.vertices, g.indices, g.sub_meshes>>
               /\ \A i \in 1..Len(m_vertices) :
                    /\ m_vertices[i].lightmap_tex_coord[1] = F0
                    /\ m_vertices[i].lightmap_tex_coord[2] = F0
               /\ ~m_has_lightmap_uvs
               /\ save_ret = "none"
               /\ \A i \in 1..Len(calls) : calls[i] # "save_lightmap_cache")
    /\ [][gen_ret' = "false" => UNCHANGED file_vars]_vars

\* a load that found an overwritten record and whose packer refused the mesh
\* has finished, the overwritten record still being there
C8_Witness ==
    /\ pc = "done"
    /\ load_ret = "false"
    /\ gen_ret = "false"
    /\ file_exists
    /\ file_kind = "tampered"
    /\ m_vertices # <<>>

\* C9 (cache-stage errors never fail the load): load_lightmap_cache returns,
\* and the constructor is not abandoned; after a read that returned false the
\* generator is called before anything else; after a save that returned false
\* the load goes on to create_gpu_objects with the consolidated geometry.
C9_CacheErrorsRecovered ==
    /\ pc # "aborted"
    /\ load_ret \in {"none", "true", "false"}
    /\ (load_ret = "false" /\ gen_ret = "none") => pc = "generate"
    /\ save_ret = "false"
        => /\ pc \in {"gpu", "done"}
           /\ gen_ret = "true"
           /\ m_has_lightmap_uvs
           /\ m_indices = atlas.indexArray
           /\ Len(m_vertices) = Len(atlas.vertexArray)

\* C10 (zero packer counts are a failure): when the imported geometry has
\* indices, the packer took the mesh and its output mesh has no vertices or no
\* indices, generate_lightmap_uvs has
\* returned false, the geometry is the imported one and save_lightmap_cache is
\* not called.
C10_ZeroCountsFail ==
    (/\ gen_ret # "none"
     /\ load_from_disk(scene).indices # <<>>
     /\ atlas.add_ok
     /\ Len(atlas.vertexArray) = 0 \/ Len(atlas.indexArray) = 0)
        => /\ gen_ret = "false"
           /\ m_vertices # <<>>
           /\ m_indices # <<>>
           /\ save_ret = "none"
           /\ pc \in {"gpu", "done"}

\* C11 (empty geometry aborts the load): when lightmap UVs are requested and
\* the imported geometry has no vertices or no indices, the load does not go
\* past generate_lightmap_uvs: the constructor is abandoned; and the
\* constructor is abandoned in no other case.
C11_EmptyGeometryAborts ==
    /\ (gen_ret # "none" /\ (m_vertices = <<>> \/ m_indices = <<>>)
            /\ Len(load_from_disk(scene).indices) = 0)
        => pc = "aborted"
    /\ pc = "aborted"
        => \/ Len(load_from_disk(scene).vertices) = 0
           \/ Len(load_from_disk(scene).indices) = 0

\* C12 (consolidated vertex content): after generate_lightmap_uvs returned
\* true there are as many vertices as the packer's output has, and vertex v has
\* the position, normal, tangent, bitangent and primary UV of the imported
\* vertex xref(v), and the lightmap UV (u / width, v / height, 0, 0).
C12_ConsolidatedVertices ==
    gen_ret = "true"
        => /\ Len(m_vertices) = Len(atlas.vertexArray)
           /\ \A v \in 1..Len(m_vertices) :
                LET old == load_from_disk(scene).vertices[atlas.vertexArray[v].xref + 1]
                    new == m_vertices[v]
                    uv == atlas.vertexArray[v].uv
                IN  /\ new.position = old.position
                    /\ new.normal = old.normal
                    /\ new.tangent = old.tangent
                    /\ new.bitangent = old.bitangent
                    /\ new.tex_coord = old.tex_coord
                    /\ (new.lightmap_tex_coord[1] \div 16) * atlas.width
                            = uv[1] * (new.lightmap_tex_coord[1] % 16)
                    /\ (new.lightmap_tex_coord[2] \div 16) * atlas.height
                            = uv[2] * (new.lightmap_tex_coord[2] % 16)
                    /\ new.lightmap_tex_coord[3] = F0
                    /\ new.lightmap_tex_coord[4] = F0

\* a seam split: one vertex more than imported, the first vertex and its copy
\* sharing position and normal and differing in lightmap UV
C12_Witness ==
    /\ gen_ret = "true"
    /\ Len(m_vertices) = Len(load_from_disk(scene).vertices) + 1
    /\ atlas.vertexArray[Len(m_vertices)].xref = 0
    /\ m_vertices[Len(m_vertices)].position = m_vertices[1].position
    /\ m_vertices[Len(m_vertices)].normal = m_vertices[1].normal
    /\ m_vertices[Len(m_vertices)].lightmap_tex_coord # m_vertices[1].lightmap_tex_coord

\* C13 (index-count conservation): after load_from_disk, and after
\* generate_lightmap_uvs returned true, the index counts of the submeshes add
\* up to the length of the index buffer.
C13_IndexCountConserved ==
    (\/ calls # <<>> /\ load_ret # "true" /\ gen_ret = "none"
     \/ gen_ret = "true")
        => SumTo([i \in 1..Len(m_sub_meshes) |-> m_sub_meshes[i].index_count],
                 Len(m_sub_meshes)) = Len(m_indices)

\* C14 (shared vertex buffer): after generate_lightmap_uvs returned true every
\* submesh has base_vertex 0 and vertex_count equal to the number of vertices
\* in the new vertex buffer.
C14_SharedVertexBuffer ==
    gen_ret = "true"
        => \A i \in 1..Len(m_sub_meshes) :
              /\ m_sub_meshes[i].base_vertex = 0
              /\ m_sub_meshes[i].vertex_count = Len(m_vertices)

\* two submeshes of three imported vertices each share a buffer of seven
C14_Witness ==
    /\ gen_ret = "true"
    /\ Len(m_sub_meshes) = 2
    /\ Len(m_vertices) = 7
    /\ load_from_disk(scene).sub_meshes[2].vertex_count = 3
    /\ m_sub_meshes[2].vertex_count = 7

\* C15 (the final geometry is consistent): when a load with lightmap UVs
\* requested has finished, every index is smaller than the number of vertices
\* and every submesh's range [base_index, base_index + index_count) lies
\* inside the index buffer.
C15_FinalGeometryConsistent ==
    (pc = "done" /\ generate_lightmap_uv)
        => /\ \A i \in 1..Len(m_indices) : m_indices[i] < Len(m_vertices)
           /\ \A k \in 1..Len(m_sub_meshes) :
                m_sub_meshes[k].base_index + m_sub_meshes[k].index_count <= Len(m_indices)

\* C16 (the hash is a pure function of positions, indices and submesh index
\* ranges): compute_mesh_hash leaves the mesh as it is, and the hash it returns
\* is the hash of the mesh that has the same positions, indices, index_count
\* and base_index and other normals, tangents, bitangents, primary and
\* lightmap UVs, names, material indices, base_vertex, vertex_count and
\* extents; the hash of the mesh without vertices, indices and submeshes is
\* the offset basis.
C16_HashPure ==
    /\ [][pc = "hash"
            => /\ UNCHANGED mesh_vars
               /\ mesh_hash' =
                    compute_mesh_hash(
                        [i \in 1..Len(m_vertices) |->
                            [position |-> m_vertices[i].position,
                             tex_coord |-> <<F1, F1, F0, F0>>,
                             lightmap_tex_coord |-> <<F1, F0, F0, F0>>,
                             normal |-> <<F1, F0, F0, F0>>,
                             tangent |-> <<F0, F1, F0, F0>>,
                             bitangent |-> <<F0, F0, F1, F0>>]],
                        m_indices,
                        [k \in 1..Len(m_sub_meshes) |->
                            [name |-> <<120>>,
                             mat_idx |-> m_sub_meshes[k].mat_idx + 1,
                             index_count |-> m_sub_meshes[k].index_count,
                             base_index |-> m_sub_meshes[k].base_index,
                             base_vertex |-> 5,
                             vertex_count |-> 0,
                             max_extents |-> <<F2, F2, F2>>,
                             min_extents |-> <<F1, F1, F1>>]])]_vars
    /\ [](compute_mesh_hash(<<>>, <<>>, <<>>) = FNV_OFFSET)

\* the hash of a mesh of two submeshes has been computed
C16_Witness ==
    /\ pc = "load_cache"
    /\ Len(m_sub_meshes) = 2
    /\ Len(m_vertices) = 6
    /\ mesh_hash # NoHash
    /\ mesh_hash # FNV_OFFSET

\* C17 (order of the calls): a load calls load_from_disk first; with lightmap
\* UVs requested it calls compute_mesh_hash second and load_lightmap_cache
\* third, generate_lightmap_uvs only fourth and only after load_lightmap_cache
\* returned false, save_lightmap_cache only fifth and only after
\* generate_lightmap_uvs returned true, and create_gpu_objects last; without
\* the request it calls none of the four and the geometry is the imported one.
C17_CallOrder ==
    /\ calls # <<>> => calls[1] = "load_from_disk"
    /\ \A i \in 1..Len(calls) :
          /\ calls[i] = "load_from_disk" => i = 1
          /\ calls[i] = "compute_mesh_hash" => (i = 2 /\ generate_lightmap_uv)
          /\ calls[i] = "load_lightmap_cache" => (i = 3 /\ calls[2] = "compute_mesh_hash")
          /\ calls[i] = "generate_lightmap_uvs"
                => (i = 4 /\ calls[3] = "load_lightmap_cache" /\ load_ret = "false")
          /\ calls[i] = "save_lightmap_cache"
                => (i = 5 /\ calls[4] = "generate_lightmap_uvs" /\ gen_ret = "true")
          /\ calls[i] = "create_gpu_objects" => (i = Len(calls) /\ pc = "done")
    /\ (generate_lightmap_uv /\ Len(calls) >= 2) => calls[2] = "compute_mesh_hash"
    /\ (generate_lightmap_uv /\ pc = "done")
          => \/ load_ret = "true" /\ Len(calls) = 4
             \/ load_ret = "false" /\ gen_ret = "false" /\ Len(calls) = 5
             \/ load_ret = "false" /\ gen_ret = "true" /\ Len(calls) = 6
    /\ (~generate_lightmap_uv /\ calls # <<>>)
          => /\ calls \in {<<"load_from_disk">>, <<"load_from_disk", "create_gpu_objects">>}
             /\ mesh_hash = NoHash
             /\ load_ret = "none" /\ gen_ret = "none" /\ save_ret = "none"
             /\ <<m_vertices, m_indices, m_sub_meshes>> =
                    LET g == load_from_disk(scene)
                    IN  <<g.vertices, g.indices, g.sub_meshes>>

\* a load has missed, generated, saved and finished
C17_Witness ==
    /\ pc = "done"
    /\ calls = <<"load_from_disk", "compute_mesh_hash", "load_lightmap_cache",
                 "generate_lightmap_uvs", "save_lightmap_cache", "create_gpu_objects">>

\* C18 (submesh re-basing): after generate_lightmap_uvs returned true every
\* submesh has the index_count it was imported with, and its base_index is the
\* sum of the index counts of the submeshes before it.
C18_SubMeshRebasing ==
    gen_ret = "true"
        => /\ Len(m_sub_meshes) = Len(load_from_disk(scene).sub_meshes)
           /\ \A k \in 1..Len(m_sub_meshes) :
                /\ m_sub_meshes[k].index_count =
                        load_from_disk(scene).sub_meshes[k].index_count
                /\ m_sub_meshes[k].base_index =
                        IF k = 1 THEN 0
                        ELSE m_sub_meshes[k - 1].base_index + m_sub_meshes[k - 1].index_count

\* the second of two submeshes starts where the first one ends
C18_Witness ==
    /\ gen_ret = "true"
    /\ Len(m_sub_meshes) = 2
    /\ m_sub_meshes[1].base_index = 0
    /\ m_sub_meshes[1].index_count = 3
    /\ m_sub_meshes[2].base_index = 3
    /\ m_sub_meshes[2].index_count = 3

\* C19 (no torn read): when load_lightmap_cache, reading while another load
\* of the same mesh writes the file, returns true, the geometry and lightmap
\* size it leaves in the mesh are those of one record, the one the file was
\* last opened to hold; it adopts no mix of records.
C19_NoTornRead ==
    [][(pc = "load_data" /\ load_ret' = "true")
        => /\ m_vertices' = record.mesh.vertices
           /\ m_indices' = record.mesh.indices
           /\ m_sub_meshes' = record.mesh.sub_meshes
           /\ m_lightmap_width' = record.mesh.lightmap_width
           /\ m_lightmap_height' = record.mesh.lightmap_height]_vars

\* C20 (loads of different paths do not interfere): whenever Mesh::load has
\* returned to a thread, m_cache holds under the thread's cache_key the live
\* mesh it was given, and two threads that hold the meshes of their loads at
\* the same time hold meshes with different m_id, as after running the loads
\* one after the other.
C20_LoadsIndependent ==
    /\ \A t \in Threads :
          thread[t].pc = "done" => m_cache[thread[t].cache_key] = thread[t].ret
    /\ \A t, u \in Threads :
          (t # u /\ thread[t].pc = "done" /\ thread[u].pc = "done")
              => thread[t].ret.m_id # thread[u].ret.m_id

\* C21 (a failed generation leaves the lightmap fields alone): when
\* generate_lightmap_uvs returns false, m_lightmap_width, m_lightmap_height
\* and m_has_lightmap_uvs are what they were before the call, whichever way
\* it failed.
C21_FailedGenerateKeepsLightmapFields ==
    [][(pc = "generate" /\ gen_ret' = "false")
        => UNCHANGED <<m_lightmap_width, m_lightmap_height, m_has_lightmap_uvs>>]_vars

\* C22 (a cache hit keeps the imported names and materials): when
\* load_lightmap_cache returns true, m_sub_meshes is as long as the list
\* load_from_disk built from the source file of this load, and each submesh
\* has the name and the mat_idx of the imported submesh at its position.
C22_HitKeepsNamesAndMaterials ==
    [][(pc = "load_cache" /\ load_ret' = "true")
        => /\ Len(m_sub_meshes') = Len(load_from_disk(scene).sub_meshes)
           /\ \A i \in 1..Len(m_sub_meshes') :
                 /\ m_sub_meshes'[i].name = load_from_disk(scene).sub_meshes[i].name
                 /\ m_sub_meshes'[i].mat_idx = load_from_disk(scene).sub_meshes[i].mat_idx]_vars

\* C23 (is_loaded tells whether a load would reuse): between calls of
\* Mesh::load and releases of the meshes it returned, is_loaded(name) is true
\* exactly when Mesh::load with that key would return an existing live
\* instance instead of constructing a mesh.
C23_IsLoadedIffLoadHits ==
    (\A t \in Threads : Quiet(t))
        => \A k \in CacheKeys : is_loaded(k) <=> LoadHits(k)

\* every mat_idx is the position of an entry of the materials list
MatIdxValid(sub_meshes, materials) ==
    \A i \in 1..Len(sub_meshes) : sub_meshes[i].mat_idx < Len(materials)

\* the submeshes a setter call is aimed at: the first one of the name, the
\* one at the index, all of them
Targeted(call, sub_meshes) ==
    IF call.op = "name"
    THEN {i \in 1..Len(sub_meshes) :
            /\ sub_meshes[i].name = call.name
            /\ \A j \in 1..(i - 1) : sub_meshes[j].name # call.name}
    ELSE IF call.op = "index" THEN {call.mesh_idx + 1} \cap (1..Len(sub_meshes))
    ELSE 1..Len(sub_meshes)

\* C24 (material assignment keeps material indices valid): a call of
\* set_submesh_material or set_global_material on a mesh whose mat_idx are all
\* below the length of m_materials leaves them so; a call with an unknown
\* name or an index beyond the submeshes, and no other, returns false and
\* changes neither m_sub_meshes nor m_materials; every other call appends
\* exactly the given material and sets the mat_idx of the targeted submeshes,
\* and nothing else, to the position of the new last entry.
C24_MaterialAssignment ==
    [][(set_call'.count = set_call.count + 1)
        => /\ MatIdxValid(m_sub_meshes, m_materials)
                 => MatIdxValid(m_sub_meshes', m_materials')
           /\ (set_call'.ret = "false")
                 <=> (set_call'.op # "global" /\ Targeted(set_call', m_sub_meshes) = {})
           /\ (set_call'.ret = "false") => UNCHANGED <<m_sub_meshes, m_materials>>
           /\ (set_call'.ret # "false")
                 => /\ m_materials' = Append(m_materials, set_call'.material)
                    /\ m_sub_meshes' =
                         [i \in 1..Len(m_sub_meshes) |->
                            IF i \in Targeted(set_call', m_sub_meshes)
                            THEN [m_sub_meshes[i] EXCEPT !.mat_idx = Len(m_materials') - 1]
                            ELSE m_sub_meshes[i]]]_vars

\* a call by name has succeeded on a mesh with two submeshes of that name: the
\* first one points at the new last material, the second one does not
C24_Witness ==
    /\ set_call.op = "name"
    /\ set_call.ret = "true"
    /\ Len(m_sub_meshes) = 2
    /\ m_sub_meshes[1].name = set_call.name
    /\ m_sub_meshes[2].name = set_call.name
    /\ m_sub_meshes[1].mat_idx = Len(m_materials) - 1
    /\ m_sub_meshes[2].mat_idx < Len(m_materials) - 1

====
